---- MODULE Spec2Model ----
(***************************************************************************)
(* ObservableAsyncQueue (cogs/shared/collections.py): an asyncio.Queue     *)
(* subclass with a cached snapshot view, a front insertion (unshift) and a *)
(* back removal (pop).  Tasks run on one event loop: a step of a task is   *)
(* atomic up to its next await, and callbacks run in the order in which    *)
(* they were scheduled.  put and get are asyncio.Queue's own (the wait     *)
(* loop that unshift copies at lines 306-324, mirrored for getters).       *)
(* task_done and join are asyncio.Queue's as well.  Beside the queue, a     *)
(* TwoWayDict of the same file: an OrderedDict with a cached reverse map.  *)
(***************************************************************************)
EXTENDS Integers, Sequences, FiniteSets, TLC

NumTasks == 2
MaxItems == 2
MaxSeqItems == 3
MaxSize == 1
MaxKeys == 2

Tasks == 1..NumTasks
Items == 1..MaxItems
SeqItems == 1..MaxSeqItems
Capacities == 0..MaxSize
NonPositive == {-1, 0}
Keys == 1..MaxKeys
\* the values of the dictionary: integers, a string, lists of integers
Atoms == {1, 2}
Single(n) == [kind |-> "int", elems |-> <<n>>]
Values ==
    {Single(n) : n \in Atoms} \cup {[kind |-> "str", elems |-> <<1, 2>>]}
    \cup {[kind |-> "list", elems |-> e] :
            e \in {<<>>} \cup {<<n>> : n \in Atoms} \cup {<<n, m>> : n, m \in Atoms}}
Caller == CHOOSE t \in Tasks : \A u \in Tasks : t <= u

VARIABLES
    maxsize,            \* self._maxsize (<= 0 means unbounded)
    queue,              \* self._queue, left end first
    putters,            \* self._putters: futures of suspended put/unshift calls
    getters,            \* self._getters: futures of suspended get calls
    fut,                \* state of the future each task awaits
    must_cancel,        \* a cancel was requested after the future was done
    op,                 \* the call each task is inside ("none": no call)
    arg,                \* the item of that call (0: none)
    ready,              \* the event loop's FIFO of scheduled task wake-ups
    view,               \* the cached_property "view"
    unfinished_tasks,   \* self._unfinished_tasks
    hist,               \* completed insertions and removals, in order
    raised,             \* the error the deque or task_done raised in the step
                        \* just taken ("none": none).  A cancelled call is one that ends
                        \* without having inserted or removed.
    held,               \* the view handle a caller obtained and kept
    mapping,            \* a TwoWayDict: its (key, value) pairs in key order
    reversed_representation
                        \* the cached_property of that TwoWayDict

vars == <<maxsize, queue, putters, getters, fut, must_cancel, op, arg, ready,
          view, unfinished_tasks, hist, raised, held, mapping,
          reversed_representation>>

queuevars == <<maxsize, queue, putters, getters, fut, must_cancel, op, arg,
               ready, view, unfinished_tasks, hist, raised, held>>

\* what no call on the queue touches: the handle a caller keeps, the dictionary
aside == <<held, mapping, reversed_representation>>

NoView == [cached |-> FALSE, items |-> <<>>]
Event(o, i) == [op |-> o, item |-> i]
NoError == "none"

\* list.remove (RemoveNothing: the waiter stays on the list)
RemoveNothing(s, t) == s
Remove(s, t) == SelectSeq(s, LAMBDA x : x # t)
Last(s) == s[Len(s)]
Front(s) == SubSeq(s, 1, Len(s) - 1)

\* asyncio.Queue.full / empty (full_above: the comparison off by one;
\* full_bound: a capacity of 0 or less taken as a bound)
full_bound(q, m) == Len(q) >= m
full_above(q, m) == IF m <= 0 THEN FALSE ELSE Len(q) > m
full(q, m) == IF m <= 0 THEN FALSE ELSE Len(q) >= m
empty(q) == q = <<>>

\* the underlying deque operations (appendleft_back, popleft_back: the
\* wrong end; popleft_keep: the item is returned and stays stored)
append_last(q, item) == Append(q, item)
appendleft_back(q, item) == Append(q, item)
appendleft(q, item) == <<item>> \o q
popleft_keep(q) == [item |-> Head(q), rest |-> q]
popleft_back(q) == [item |-> Last(q), rest |-> Front(q)]
popleft(q) == [item |-> Head(q), rest |-> Tail(q)]
pop_right(q) == [item |-> Last(q), rest |-> Front(q)]

\* asyncio.Queue._wakeup_next: drop done futures from the left, wake the
\* first one that is not done.  (WakeLast: from the right; WakeNone: no
\* wake-up at all.)
RECURSIVE WakeLast(_, _)
WakeLast(w, f) ==
    IF w = <<>> THEN [list |-> <<>>, woken |-> 0]
    ELSE IF f[Last(w)] = "PENDING" THEN [list |-> Front(w), woken |-> Last(w)]
    ELSE WakeLast(Front(w), f)
WakeNone(w, f) == [list |-> w, woken |-> 0]
RECURSIVE wakeup_next(_, _)
wakeup_next(w, f) ==
    IF w = <<>> THEN [list |-> <<>>, woken |-> 0]
    ELSE IF f[Head(w)] = "PENDING" THEN [list |-> Tail(w), woken |-> Head(w)]
    ELSE wakeup_next(Tail(w), f)

\* set_result(None) on the woken future, which schedules its task
\* (WakeEvery: every pending waiter of the list gets the result)
WakeEvery(f, w) ==
    IF w.woken = 0 THEN f
    ELSE [t \in DOMAIN f |->
            IF t = w.woken \/ (f[t] = "PENDING" /\ \E i \in 1..Len(w.list) : w.list[i] = t)
            THEN "FINISHED" ELSE f[t]]
Wake(f, w) == IF w.woken = 0 THEN f ELSE [f EXCEPT ![w.woken] = "FINISHED"]
Schedule(r, w) == IF w.woken = 0 THEN r ELSE Append(r, w.woken)

\* "if not self.full() and not putter.cancelled()" and its get counterpart
\* (never_forward: the wake-up is dropped)
never_forward(blocked, f) == FALSE
forward_wake(blocked, f) == ~blocked /\ f # "CANCELLED"

\* a handle is the live deque itself or a copy of its own; no view cached in
\* a fresh object
NoHandle == [taken |-> FALSE, alias |-> FALSE, items |-> <<>>]
NoReverse == [cached |-> FALSE, pairs |-> <<>>]

\* asyncio.Queue(maxsize): the queue as constructed, with an empty dictionary
\* beside it
Built(m) ==
    /\ maxsize = m
    /\ queue = <<>>
    /\ putters = <<>>
    /\ getters = <<>>
    /\ fut = [t \in Tasks |-> "NONE"]
    /\ must_cancel = [t \in Tasks |-> FALSE]
    /\ op = [t \in Tasks |-> "none"]
    /\ arg = [t \in Tasks |-> 0]
    /\ ready = <<>>
    /\ view = NoView
    /\ unfinished_tasks = 0
    /\ hist = <<>>
    /\ raised = NoError
    /\ held = NoHandle
    /\ mapping = <<>>
    /\ reversed_representation = NoReverse

Init == \E m \in Capacities : Built(m)

\* the suspended call of task t returns or raises: its slot is free again
Release(t) ==
    /\ op' = [op EXCEPT ![t] = "none"]
    /\ arg' = [arg EXCEPT ![t] = 0]
    /\ must_cancel' = [must_cancel EXCEPT ![t] = FALSE]
Freed(t) == [fut EXCEPT ![t] = "NONE"]

\* create_future(); waiters.append(future); await future
Suspend(t, o, a, r) ==
    /\ fut' = [fut EXCEPT ![t] = "PENDING"]
    /\ op' = [op EXCEPT ![t] = o]
    /\ arg' = [arg EXCEPT ![t] = a]
    /\ ready' = r
    /\ raised' = NoError
    /\ UNCHANGED <<queue, view, unfinished_tasks, hist, must_cancel>>

\* put_nowait: _put (append, drop the cached view), count the task, wake a
\* getter.  f and r are the futures and the loop's FIFO as the caller left them.
\* (put_nowait_stale: the cached view is left in place)
put_nowait_stale(a, f, r) ==
    LET w == wakeup_next(getters, f) IN
    /\ queue' = append_last(queue, a)
    /\ unfinished_tasks' = unfinished_tasks + 1
    /\ getters' = w.list
    /\ fut' = Wake(f, w)
    /\ ready' = Schedule(r, w)
    /\ hist' = Append(hist, Event("put", a))
    /\ raised' = NoError
    /\ UNCHANGED <<putters, view>>
put_nowait(a, f, r) ==
    LET w == wakeup_next(getters, f) IN
    /\ queue' = append_last(queue, a)
    /\ view' = NoView
    /\ unfinished_tasks' = unfinished_tasks + 1
    /\ getters' = w.list
    /\ fut' = Wake(f, w)
    /\ ready' = Schedule(r, w)
    /\ hist' = Append(hist, Event("put", a))
    /\ raised' = NoError
    /\ UNCHANGED putters

\* the tail of unshift: appendleft, drop the cached view, return item
\* (unshift_insert_stale: the cached view is left in place)
unshift_insert_stale(a, f, r) ==
    /\ queue' = appendleft(queue, a)
    /\ fut' = f
    /\ ready' = r
    /\ hist' = Append(hist, Event("unshift", a))
    /\ raised' = NoError
    /\ UNCHANGED <<putters, getters, unfinished_tasks, view>>
unshift_insert(a, f, r) ==
    /\ queue' = appendleft(queue, a)
    /\ view' = NoView
    /\ fut' = f
    /\ ready' = r
    /\ hist' = Append(hist, Event("unshift", a))
    /\ raised' = NoError
    /\ UNCHANGED <<putters, getters, unfinished_tasks>>

\* get_nowait: _get (popleft, drop the cached view), wake a putter
get_nowait(f, r) ==
    LET g == popleft(queue)
        w == wakeup_next(putters, f) IN
    /\ queue' = g.rest
    /\ view' = NoView
    /\ putters' = w.list
    /\ fut' = Wake(f, w)
    /\ ready' = Schedule(r, w)
    /\ hist' = Append(hist, Event("get", g.item))
    /\ raised' = NoError
    /\ UNCHANGED <<getters, unfinished_tasks>>

Idle(t) == op[t] = "none"

\* the items callers hand in are distinct: a new call brings the least item
\* that is neither stored, nor was stored, nor is held by a suspended call
Used == {hist[i].item : i \in 1..Len(hist)} \cup {arg[t] : t \in Tasks}
IsFresh(a) == a \notin Used /\ \A j \in 1..(a - 1) : j \in Used

\* A call that does not have to wait is made by whatever code is running;
\* a call that has to wait suspends task t, which must be in no call.  Tasks
\* are interchangeable, so of the tasks of T in no call the least one is t.
Slot(t, T) ==
    /\ t \in T
    /\ \/ Idle(t) /\ \A u \in T : Idle(u) => t <= u
       \/ \A u \in T : ~Idle(u) /\ t <= u

\* put: "while self.full()" suspends, then put_nowait
Put(t, a) ==
    /\ IsFresh(a)
    /\ IF full(queue, maxsize)
       THEN /\ Idle(t)
            /\ putters' = Append(putters, t)
            /\ Suspend(t, "put", a, ready)
            /\ UNCHANGED getters
       ELSE /\ put_nowait(a, fut, ready)
            /\ UNCHANGED <<op, arg, must_cancel>>
    /\ UNCHANGED <<maxsize, aside>>

\* unshift: "while self.full()" suspends, then the insertion at the left
Unshift(t, a) ==
    /\ IsFresh(a)
    /\ IF full(queue, maxsize)
       THEN /\ Idle(t)
            /\ putters' = Append(putters, t)
            /\ Suspend(t, "unshift", a, ready)
            /\ UNCHANGED getters
       ELSE /\ unshift_insert(a, fut, ready)
            /\ UNCHANGED <<op, arg, must_cancel>>
    /\ UNCHANGED <<maxsize, aside>>

\* get: "while self.empty()" suspends, then get_nowait
Get(t) ==
    /\ IF empty(queue)
       THEN /\ Idle(t)
            /\ getters' = Append(getters, t)
            /\ Suspend(t, "get", 0, ready)
            /\ UNCHANGED putters
       ELSE /\ get_nowait(fut, ready)
            /\ UNCHANGED <<op, arg, must_cancel>>
    /\ UNCHANGED <<maxsize, aside>>

\* pop: self._queue.pop() with no wait and no wake-up; IndexError when empty
Pop ==
    /\ IF queue = <<>>
       THEN /\ raised' = "IndexError"
            /\ UNCHANGED <<queue, view, hist>>
       ELSE LET p == pop_right(queue) IN
            /\ queue' = p.rest
            /\ view' = NoView
            /\ hist' = Append(hist, Event("pop", p.item))
            /\ raised' = NoError
    /\ UNCHANGED <<maxsize, putters, getters, fut, must_cancel, op, arg, ready,
                   unfinished_tasks, aside>>

\* Task.cancel() on a task suspended in a queue call
Cancel(t) ==
    /\ fut[t] \in {"PENDING", "FINISHED"}
    /\ ~must_cancel[t]
    /\ IF fut[t] = "PENDING"
       THEN /\ fut' = [fut EXCEPT ![t] = "CANCELLED"]
            /\ ready' = Append(ready, t)
            /\ UNCHANGED must_cancel
       ELSE /\ must_cancel' = [must_cancel EXCEPT ![t] = TRUE]
            /\ UNCHANGED <<fut, ready>>
    /\ raised' = NoError
    /\ UNCHANGED <<maxsize, queue, putters, getters, op, arg, view,
                   unfinished_tasks, hist, aside>>

\* the woken task t goes round its wait loop again
Resume(t) ==
    IF op[t] = "get"
    THEN IF empty(queue)
         THEN /\ getters' = Append(getters, t)
              /\ Suspend(t, "get", 0, Tail(ready))
              /\ UNCHANGED putters
         ELSE get_nowait(Freed(t), Tail(ready)) /\ Release(t)
    ELSE IF full(queue, maxsize)
         THEN /\ putters' = Append(putters, t)
              /\ Suspend(t, op[t], arg[t], Tail(ready))
              /\ UNCHANGED getters
         ELSE /\ IF op[t] = "put"
                 THEN put_nowait(arg[t], Freed(t), Tail(ready))
                 ELSE unshift_insert(arg[t], Freed(t), Tail(ready))
              /\ Release(t)

\* the except: branch of the wait loop: take the future off the waiter
\* list, pass a wake-up on, re-raise CancelledError.  (HandleCancelRetry:
\* the exception is swallowed and the loop goes round again.)
HandleCancelRetry(t) == Resume(t)
HandleCancel(t) ==
    LET producer == op[t] \in {"put", "unshift"}
        mine == IF producer THEN Remove(putters, t) ELSE Remove(getters, t)
        blocked == IF producer THEN full(queue, maxsize) ELSE empty(queue)
        w == IF forward_wake(blocked, fut[t])
             THEN wakeup_next(mine, fut)
             ELSE [list |-> mine, woken |-> 0] IN
    /\ IF producer
       THEN putters' = w.list /\ UNCHANGED getters
       ELSE getters' = w.list /\ UNCHANGED putters
    /\ fut' = [Wake(fut, w) EXCEPT ![t] = "NONE"]
    /\ ready' = Schedule(Tail(ready), w)
    /\ raised' = NoError
    /\ Release(t)
    /\ UNCHANGED <<queue, view, unfinished_tasks, hist>>

\* the loop runs the next scheduled wake-up: the task resumes at its await
Run ==
    /\ ready # <<>>
    /\ LET t == Head(ready) IN
       IF fut[t] = "CANCELLED" \/ must_cancel[t]
       THEN HandleCancel(t)
       ELSE Resume(t)
    /\ UNCHANGED <<maxsize, aside>>

\* the cached_property "view": copy the deque unless a copy is cached
ReadView ==
    /\ ~view.cached
    /\ view' = [cached |-> TRUE, items |-> queue]
    /\ raised' = NoError
    /\ UNCHANGED <<maxsize, queue, putters, getters, fut, must_cancel, op, arg,
                   ready, unfinished_tasks, hist, aside>>

\* the completed calls of the operations ops
CountOf(ops) == Cardinality({j \in 1..Len(hist) : hist[j].op \in ops})

\* asyncio.Queue.task_done, called by a consumer for an item it retrieved and
\* has not yet reported: ValueError when the counter is not positive
TaskDone ==
    /\ CountOf({"put"}) - unfinished_tasks < CountOf({"get", "pop"})
    /\ IF unfinished_tasks <= 0
       THEN raised' = "ValueError" /\ UNCHANGED unfinished_tasks
       ELSE raised' = NoError /\ unfinished_tasks' = unfinished_tasks - 1
    /\ UNCHANGED <<maxsize, queue, putters, getters, fut, must_cancel, op, arg,
                   ready, view, hist, aside>>

\* asyncio.Queue.join returns at once when no task is unfinished (the event
\* _finished is set exactly then)
join_returns == unfinished_tasks = 0

\* deque.copy(): a new deque holding the same items (copy_alias: the live
\* deque itself is handed out)
copy_alias(q) == [taken |-> TRUE, alias |-> TRUE, items |-> q]
copy(q) == [taken |-> TRUE, alias |-> FALSE, items |-> q]

\* what a handle shows when it is read: its own items, or the deque's
Shown(h) == IF h.alias THEN queue ELSE h.items

\* "view = self.view" (__iter__) or a caller keeping q.view: the cached copy
\* if there is one, a new copy, which is then cached, if there is none
Snapshot ==
    /\ held' = copy(IF view.cached THEN view.items ELSE queue)
    /\ view' = [cached |-> TRUE, items |-> held'.items]
    /\ raised' = NoError
    /\ UNCHANGED <<maxsize, queue, putters, getters, fut, must_cancel, op, arg,
                   ready, unfinished_tasks, hist, mapping,
                   reversed_representation>>

\* OrderedDict.__setitem__ on a sequence of (key, value) pairs: a key that is
\* there keeps its place, a new key goes to the end
Entry(k, v) == [key |-> k, value |-> v]
HasKey(m, k) == \E i \in 1..Len(m) : m[i].key = k
store(m, k, v) ==
    IF HasKey(m, k)
    THEN [i \in 1..Len(m) |-> IF m[i].key = k THEN Entry(k, v) ELSE m[i]]
    ELSE Append(m, Entry(k, v))

\* "for sv in v: rev[sv] = k"
RECURSIVE store_each(_, _, _)
store_each(rev, svs, k) ==
    IF svs = <<>> THEN rev
    ELSE store_each(store(rev, Single(Head(svs)), k), Tail(svs), k)

\* TwoWayDict._reversed_representation: each value, or each element of a
\* value that is iterable and not a string, mapped to its key
RECURSIVE reverse_of(_, _)
reverse_of(m, rev) ==
    IF m = <<>> THEN rev
    ELSE LET k == Head(m).key
             v == Head(m).value IN
         reverse_of(Tail(m),
                    IF v.kind = "list" THEN store_each(rev, v.elems, k)
                    ELSE store(rev, v, k))

\* TwoWayDict.__setitem__: drop the cached reverse, then store
SetItem(k, v) ==
    /\ reversed_representation' = NoReverse
    /\ mapping' = store(mapping, k, v)
    /\ UNCHANGED queuevars

\* del d[k]: OrderedDict.__delitem__, which TwoWayDict does not override
DelItem(k) ==
    /\ HasKey(mapping, k)
    /\ mapping' = SelectSeq(mapping, LAMBDA e : e.key # k)
    /\ UNCHANGED <<reversed_representation, queuevars>>

\* reversed(d): the cached_property, computed unless it is cached
Reversed ==
    /\ ~reversed_representation.cached
    /\ reversed_representation' =
           [cached |-> TRUE, pairs |-> reverse_of(mapping, <<>>)]
    /\ UNCHANGED <<mapping, queuevars>>

Next ==
    \/ \E a \in Items, t \in Tasks : IsFresh(a) /\ Slot(t, Tasks) /\ Put(t, a)
    \/ \E a \in Items, t \in Tasks : IsFresh(a) /\ Slot(t, Tasks) /\ Unshift(t, a)
    \/ \E t \in Tasks : Slot(t, Tasks) /\ Get(t)
    \/ Pop
    \/ \E t \in Tasks : Cancel(t)
    \/ Run

Spec == Init /\ [][Next]_vars

\* one caller making its calls one after the other and reading the view
NextSeq ==
    \/ \E a \in SeqItems : Idle(Caller) /\ Put(Caller, a)
    \/ \E a \in SeqItems : Idle(Caller) /\ Unshift(Caller, a)
    \/ Idle(Caller) /\ Get(Caller)
    \/ Idle(Caller) /\ Pop
    \/ Cancel(Caller)
    \/ Run
    \/ ReadView

SeqSpec == Init /\ [][NextSeq]_vars

\* the queue constructed with a capacity of 0 or less
InitCtor == \E m \in NonPositive : Built(m)

CtorSpec == InitCtor /\ [][NextSeq]_vars

\* calls on the queue, at most one of them suspended, and a reader that
\* looks at the view and keeps what it got
NextView ==
    \/ \E a \in Items : IsFresh(a) /\ Put(Caller, a)
    \/ \E a \in Items : IsFresh(a) /\ Unshift(Caller, a)
    \/ Get(Caller)
    \/ Pop
    \/ Cancel(Caller)
    \/ Run
    \/ ReadView
    \/ Snapshot

ViewSpec == Init /\ [][NextView]_vars

\* calls on the queue, at most one of them suspended, and consumers that
\* report the items they retrieved
NextAcct ==
    \/ \E a \in Items : IsFresh(a) /\ Put(Caller, a)
    \/ \E a \in Items : IsFresh(a) /\ Unshift(Caller, a)
    \/ Get(Caller)
    \/ Pop
    \/ Cancel(Caller)
    \/ Run
    \/ TaskDone

AcctSpec == Init /\ [][NextAcct]_vars

\* a TwoWayDict that is assigned to, deleted from and reversed
NextDict ==
    \/ \E k \in Keys, v \in Values : SetItem(k, v)
    \/ \E k \in Keys : DelItem(k)
    \/ Reversed

\* beside a queue built with the default capacity
InitDict == Built(0)

DictSpec == InitDict /\ [][NextDict]_vars

\* producers and consumers on a queue of capacity 1; the event loop always
\* runs the wake-ups it has scheduled
InitLive == Init /\ maxsize = 1

NextLive ==
    \/ \E a \in Items, t \in Tasks : IsFresh(a) /\ Slot(t, Tasks) /\ Put(t, a)
    \/ \E t \in Tasks : Slot(t, Tasks) /\ Get(t)
    \/ \E t \in Tasks : Cancel(t)
    \/ Run

LiveSpec == InitLive /\ [][NextLive]_vars /\ WF_vars(Run)

\* ---------------------------------------------------------------------
\* Properties

\* the earliest waiter of a list whose future is still pending (0: none)
PendingAt(w) == {i \in 1..Len(w) : fut[w[i]] = "PENDING"}
FirstPending(w) ==
    IF PendingAt(w) = {} THEN 0
    ELSE w[CHOOSE i \in PendingAt(w) : \A j \in PendingAt(w) : i <= j]

\* this step completes an insertion or a removal by operation o
Did(o) == Len(hist') = Len(hist) + 1 /\ hist'[Len(hist')].op = o

IsInsert(e) == e.op \in {"put", "unshift"}
Inserts(h) == Len(SelectSeq(h, IsInsert))
\* the queue was empty before the k-th completed operation
EmptyBefore(k) ==
    2 * Inserts(SubSeq(hist, 1, k - 1)) = k - 1

\* C1: with a finite positive capacity, 0 <= size <= capacity in every
\* reachable state, whatever the interleaving of put, unshift, get, pop and
\* cancellations.
C1_CapacityInvariant ==
    maxsize > 0 => (0 <= Len(queue) /\ Len(queue) <= maxsize)

C1_Witness ==
    /\ maxsize > 0
    /\ Len(queue) = maxsize
    /\ \E t \in Tasks : op[t] = "unshift" /\ fut[t] = "PENDING"
    /\ hist # <<>> /\ hist[Len(hist)].op = "unshift"

\* a slot of a producer is free / an item of a consumer is there
Available(o) ==
    IF o = "get" THEN Len(queue) > 0 ELSE maxsize <= 0 \/ Len(queue) < maxsize
WaitersOf(o) == IF o = "get" THEN getters ELSE putters
\* the suspended call of task t ends in this step
Ends(t) == op[t] # "none" /\ op'[t] = "none"
Cancelling(t) == fut[t] = "CANCELLED" \/ must_cancel[t]

\* C2: no lost wake-up on put.  With capacity 1, a get suspended on the
\* empty queue while a put stores x ends (with x, or cancelled) unless x is
\* taken away first; when it ends normally it returns the item at the front.
C2_NoLostWakeup ==
    /\ \A g \in Tasks : \A x \in Items :
         (op[g] = "get" /\ queue = <<x>> /\ hist # <<>>
            /\ hist[Len(hist)] = Event("put", x))
         ~> (op[g] = "none" \/ queue = <<>>)
    /\ [][\A g \in Tasks : (op[g] = "get" /\ Ends(g)) =>
            \/ Cancelling(g) /\ hist' = hist
            \/ /\ queue # <<>>
               /\ hist' = Append(hist, Event("get", queue[1]))]_vars

C2_Witness ==
    /\ maxsize = 1
    /\ \E g \in Tasks : op[g] = "get" /\ fut[g] = "FINISHED" /\ ~must_cancel[g]
    /\ Len(queue) = 1
    /\ hist = <<Event("put", queue[1])>>

\* C3: after unshift has inserted its item, the earliest pending consumer
\* on the getter list is woken.
C3_PushFrontWakesConsumer ==
    [][(Did("unshift") /\ FirstPending(getters) # 0)
         => fut'[FirstPending(getters)] = "FINISHED"]_vars

\* C4: after pop has removed an item, the earliest pending producer on the
\* putter list is woken.
C4_PopBackWakesProducer ==
    [][(Did("pop") /\ FirstPending(putters) # 0)
         => fut'[FirstPending(putters)] = "FINISHED"]_vars

\* C5: pop on an empty queue waits; the error of removing from an empty
\* deque never reaches a caller of the queue.
C5_NoEmptyStoreError == raised # "IndexError"

\* C6: FIFO order.  Three puts into an empty queue followed by three gets
\* return the three items in the order they were put.
C6_FifoOrder ==
    \A k \in 1..Len(hist) :
        (/\ k + 5 <= Len(hist)
         /\ EmptyBefore(k)
         /\ \A i \in 0..2 : hist[k + i].op = "put"
         /\ \A i \in 3..5 : hist[k + i].op = "get")
        => \A i \in 0..2 : hist[k + 3 + i].item = hist[k + i].item

C6_Witness ==
    /\ Len(hist) = 6
    /\ \A i \in 1..3 : hist[i].op = "put"
    /\ \A i \in 4..6 : hist[i].op = "get"

\* C7: double-ended symmetry.  From an empty queue, unshift a, unshift b and
\* two gets yield b, a; put a, put b and two pops yield b, a.
Mirrored(k, ins, rem) ==
    (/\ k + 3 <= Len(hist)
     /\ EmptyBefore(k)
     /\ hist[k].op = ins /\ hist[k + 1].op = ins
     /\ hist[k + 2].op = rem /\ hist[k + 3].op = rem)
    => (hist[k + 2].item = hist[k + 1].item /\ hist[k + 3].item = hist[k].item)

C7_DoubleEndedSymmetry ==
    \A k \in 1..Len(hist) : Mirrored(k, "unshift", "get") /\ Mirrored(k, "put", "pop")

C7_Witness ==
    /\ Len(hist) = 4
    /\ hist[1].op = "unshift" /\ hist[2].op = "unshift"
    /\ hist[3].op = "get" /\ hist[4].op = "get"

\* C8: waiters of one class are woken in arrival order, and resume in the
\* order they were woken: of two consumers woken by two puts, the one that
\* arrived first resumes first and receives the item put first.
BothWoken(c1, c2) ==
    /\ Len(ready) >= 2 /\ ready[1] = c1 /\ ready[2] = c2
    /\ op[c1] = "get" /\ op[c2] = "get"
    /\ fut[c1] = "FINISHED" /\ fut[c2] = "FINISHED"
    /\ ~must_cancel[c1] /\ ~must_cancel[c2]
    /\ Len(hist) >= 2 /\ Len(queue) = 2
    /\ hist[Len(hist) - 1] = Event("put", queue[1])
    /\ hist[Len(hist)] = Event("put", queue[2])

C8_WaiterFairness ==
    [][/\ \A t \in Tasks : (fut[t] = "PENDING" /\ fut'[t] = "FINISHED") =>
            /\ FirstPending(WaitersOf(op[t])) = t
            /\ ready' # <<>> /\ ready'[Len(ready')] = t
       /\ \A c1, c2 \in Tasks :
            (BothWoken(c1, c2) /\ (Ends(c1) \/ Ends(c2))) =>
                /\ Ends(c1) /\ ~Ends(c2)
                /\ hist' = Append(hist, Event("get", queue[1]))]_vars

C8_Witness == \E c1, c2 \in Tasks : c1 # c2 /\ BothWoken(c1, c2) /\ getters = <<>>

\* C9: cancellation safety.  A put or unshift that waits on a full queue
\* and is cancelled ends without inserting its item, comes off the putter
\* list and leaves the stored sequence as it is; nothing is inserted into a
\* full queue.
C9_CancellationSafety ==
    [][/\ \A t \in Tasks :
            (op[t] \in {"put", "unshift"} /\ Cancelling(t) /\ Ends(t)) =>
                /\ queue' = queue /\ hist' = hist
                /\ \A i \in 1..Len(putters') : putters'[i] # t
       /\ \A t \in Tasks :
            (fut[t] = "PENDING" /\ fut'[t] = "CANCELLED") => queue' = queue
       /\ Len(queue') > Len(queue) => (maxsize <= 0 \/ Len(queue) < maxsize)]_vars

C9_Witness ==
    /\ maxsize = 1
    /\ Len(queue) = 1
    /\ \E t \in Tasks :
         /\ op[t] \in {"put", "unshift"} /\ fut[t] = "CANCELLED"
         /\ ready # <<>> /\ ready[1] = t

\* C10: wake forwarding.  A waiter of either class that was woken and is
\* cancelled before it resumes wakes the earliest pending waiter of its
\* list when a slot (producers) or an item (consumers) is available.
Forwards(t) ==
    LET next == FirstPending(Remove(WaitersOf(op[t]), t)) IN
    (/\ fut[t] = "FINISHED" /\ must_cancel[t] /\ Ends(t)
     /\ Available(op[t])
     /\ next # 0)
    => (fut'[next] = "FINISHED" /\ \E i \in 1..Len(ready') : ready'[i] = next)

C11_SnapshotCoherence ==
    /\ [](view.cached => view.items = queue)
    /\ [][queue' # queue => ~view'.cached]_vars

C11_Witness ==
    /\ view.cached /\ view.items = queue
    /\ queue # <<>>
    /\ \E i \in 1..Len(hist) : hist[i].op = "unshift"
    /\ \E i \in 1..Len(hist) : hist[i].op \in {"get", "pop"}

\* C12: snapshot immutability.  No completed insertion or removal changes
\* what a handle a caller already holds shows.
C12_SnapshotImmutability ==
    [][(held.taken /\ hist' # hist) => Shown(held)' = Shown(held)]_vars

C12_Witness ==
    /\ held.taken /\ held.items # <<>>
    /\ ~view.cached
    /\ Shown(held) # queue

\* C13: snapshot atomicity.  A view taken while another task is inside a
\* call is the stored sequence of that moment, which is the sequence after
\* the last mutation and before the next one: the step that takes it changes
\* nothing of the queue.
C13_SnapshotAtomicity ==
    [][held' # held =>
         /\ held'.taken /\ held'.items = queue
         /\ queue' = queue /\ hist' = hist]_vars

C13_Witness ==
    /\ op[Caller] = "get" /\ fut[Caller] = "FINISHED"
    /\ held.taken /\ held.items = queue
    /\ Len(queue) = 1
    /\ hist # <<>> /\ hist[Len(hist)] = Event("put", queue[1])

\* C14 (as claimed): a capacity of 0 or less is rejected at construction, so
\* no queue with such a capacity ever takes an item.
C14_NonPositiveCapacityRejected == maxsize <= 0 => hist = <<>>

\* C14 (amended): a queue constructed with a capacity of 0 or less is
\* unbounded: it is never full and no put or unshift ever waits on it.
C14_NonPositiveCapacityUnbounded ==
    maxsize <= 0 =>
        /\ ~full(queue, maxsize)
        /\ putters = <<>>
        /\ \A t \in Tasks : op[t] \notin {"put", "unshift"}

C14_Witness ==
    /\ maxsize < 0
    /\ Len(queue) = MaxItems
    /\ \E i \in 1..Len(hist) : hist[i].op = "put"
    /\ \E i \in 1..Len(hist) : hist[i].op = "unshift"

\* the suspended calls of operation class ops that this step wakes
WokenIn(ops) ==
    {t \in Tasks : op[t] \in ops /\ fut[t] = "PENDING" /\ fut'[t] = "FINISHED"}

Times(w, t) == Cardinality({i \in 1..Len(w) : w[i] = t})

\* C17: waiter-list invariant.  A waiter is on at most one of the two lists
\* and at most once, only while its future is pending or cancelled, and on
\* neither list once its call has completed.
C17_WaiterListInvariant ==
    \A t \in Tasks :
        /\ Times(putters, t) + Times(getters, t) <= 1
        /\ Times(putters, t) = 1 => op[t] \in {"put", "unshift"}
        /\ Times(getters, t) = 1 => op[t] = "get"
        /\ fut[t] = "FINISHED" => Times(putters, t) + Times(getters, t) = 0
        /\ op[t] = "none" => Times(putters, t) + Times(getters, t) = 0

C17_Witness ==
    \E t, u \in Tasks :
        /\ op[t] = "get" /\ fut[t] = "CANCELLED"
        /\ op[u] = "get" /\ fut[u] = "PENDING"
        /\ getters = <<t, u>> /\ putters = <<>> /\ ready = <<t>>

\* the items of the completed operations ops, and of the stored sequence
ItemsOf(ops) == {hist[i].item : i \in {j \in 1..Len(hist) : hist[j].op \in ops}}
Stored == {queue[i] : i \in 1..Len(queue)}

\* C18: item conservation.  The items returned by completed removals and
\* the items stored are together exactly the items of completed insertions,
\* each once; the item of a call still waiting or cancelled is not among
\* them.
C18_ItemConservation ==
    /\ ItemsOf({"get", "pop"}) \cup Stored = ItemsOf({"put", "unshift"})
    /\ ItemsOf({"get", "pop"}) \cap Stored = {}
    /\ Cardinality(Stored) = Len(queue)
    /\ Cardinality(ItemsOf({"get", "pop"})) = CountOf({"get", "pop"})
    /\ Cardinality(ItemsOf({"put", "unshift"})) = CountOf({"put", "unshift"})
    /\ \A t \in Tasks : arg[t] # 0 => arg[t] \notin ItemsOf({"put", "unshift"})

C18_Witness ==
    /\ Len(hist) = 4 /\ queue = <<>>
    /\ ItemsOf({"put"}) # {} /\ ItemsOf({"unshift"}) # {}
    /\ ItemsOf({"get"}) # {} /\ ItemsOf({"pop"}) # {}

\* C19: unfinished-task accounting.  The counter of unfinished tasks is at
\* least the number of stored items, so join does not return while items are
\* stored, and task_done called once per retrieved item never fails.
C19_UnfinishedTaskAccounting ==
    /\ unfinished_tasks >= Len(queue)
    /\ join_returns => queue = <<>>
    /\ raised # "ValueError"

\* a reverse dictionary as a mapping: its set of (key, value) pairs
AsMap(pairs) == {pairs[i] : i \in 1..Len(pairs)}

\* C20: TwoWayDict reverse-cache coherence.  What reversed() returns, the
\* cached reverse mapping when there is one, is the reverse of the
\* dictionary's current contents.
C20_ReverseCacheCoherence ==
    reversed_representation.cached =>
        AsMap(reversed_representation.pairs) = AsMap(reverse_of(mapping, <<>>))
====
